---- MODULE Spec2Model ----
(***************************************************************************)
(* Model of rugix-common's image extraction pipeline                       *)
(* (crates/libs/rugix-common/src/img_extract.rs).                          *)
(*                                                                         *)
(*   Spec      one call of extract_image_partitions, a step per statement  *)
(*   SpecCopy  one call of extract_partition, a step per loop iteration    *)
(***************************************************************************)
EXTENDS Integers, Sequences, FiniteSets, TLC

VARIABLES
    (* ---- extract_image_partitions ---- *)
    table,        \* the PartitionTable that PartitionTable::read yields
    requests,     \* partitions_config: sequence of (part_num, dst_dir)
    files,        \* temp_dir: the N for which partition-N.img exists
    created,      \* the N whose partition-N.img this call has created
    idx,          \* position of the for loop in partitions_config (1-based)
    pc,           \* the statement the call is at
    partition,    \* the partition found for the current request
    ty,           \* the trimmed blkid token of the current request
    fs_type,      \* the probed FsType of the current request
    result,       \* the value the call returns
    log,          \* the info! entries emitted so far
    trace,        \* the steps the call has started, in order
    dst_dirs,     \* destination directories that exist
    populated,    \* destination directories an extractor has filled
    (* ---- extract_partition ---- *)
    usize_bits,   \* width of usize on the build target
    c_args,       \* partition.start, partition.size, block_size
    img_len,      \* length of the image file in bytes
    cpc,          \* the statement the copy is at
    remaining,    \* the usize counter of the copy loop
    src_pos,      \* file position of src
    dst,          \* dst file: the runs of image offsets written, in order
    shorts,       \* short reads the source has delivered so far
    c_result      \* the value extract_partition returns

ovars == <<table, requests, files, created, idx, pc, partition, ty, fs_type,
           result, log, trace, dst_dirs, populated>>
cvars == <<usize_bits, c_args, img_len, cpc, remaining, src_pos, dst, shorts,
           c_result>>
vars == <<table, requests, files, created, idx, pc, partition, ty, fs_type,
          result, log, trace, dst_dirs, populated,
          usize_bits, c_args, img_len, cpc, remaining, src_pos, dst, shorts,
          c_result>>

(***************************************************************************)
(* Bounds                                                                  *)
(***************************************************************************)
MaxRequests == 2
MaxShortReads == 2

(***************************************************************************)
(* Strings that the code inspects are sequences of characters.             *)
(***************************************************************************)
T_vfat == <<"v", "f", "a", "t">>
T_fat == <<"f", "a", "t">>
T_fat12 == <<"f", "a", "t", "1", "2">>
T_fat16 == <<"f", "a", "t", "1", "6">>
T_fat32 == <<"f", "a", "t", "3", "2">>
T_msdos == <<"m", "s", "d", "o", "s">>
T_ext2 == <<"e", "x", "t", "2">>
T_ext3 == <<"e", "x", "t", "3">>
T_ext4 == <<"e", "x", "t", "4">>
T_empty == <<>>
T_ntfs == <<"n", "t", "f", "s">>
T_VFAT == <<"V", "F", "A", "T">>
T_Ext4 == <<"E", "x", "t", "4">>
T_ext == <<"e", "x", "t">>
T_ext5 == <<"e", "x", "t", "5">>
T_fat3 == <<"f", "a", "t", "3">>
T_swap == <<"s", "w", "a", "p">>
EmptyOrUnformatted == <<"e", "m", "p", "t", "y", " ", "o", "r", " ",
                        "u", "n", "f", "o", "r", "m", "a", "t", "t", "e", "d">>

IsWhitespace(c) == c \in {" ", "\n", "\t", "\r"}

RECURSIVE TrimStart(_)
TrimStart(s) ==
    IF s # <<>> /\ IsWhitespace(Head(s)) THEN TrimStart(Tail(s)) ELSE s

RECURSIVE TrimEnd(_)
TrimEnd(s) ==
    IF s # <<>> /\ IsWhitespace(s[Len(s)])
    THEN TrimEnd(SubSeq(s, 1, Len(s) - 1))
    ELSE s

\* str::trim
trim(s) == TrimEnd(TrimStart(s))

(***************************************************************************)
(* FsType                                                                  *)
(***************************************************************************)
Fat == <<"Fat">>
Ext == <<"Ext">>
Unknown(s) == <<"Unknown", s>>
NoFs == <<"none">>

\* Variant: a match that also accepts other spellings of the tokens.
from_blkid_type_nocase(t) ==
    CASE t \in {T_vfat, T_fat, T_fat12, T_fat16, T_fat32, T_msdos, T_VFAT} -> Fat
      [] t \in {T_ext2, T_ext3, T_ext4, T_Ext4, T_ext} -> Ext
      [] t = <<>> -> Unknown(EmptyOrUnformatted)
      [] OTHER -> Unknown(t)

from_blkid_type(t) ==
    CASE t \in {T_vfat, T_fat, T_fat12, T_fat16, T_fat32, T_msdos} -> Fat
      [] t \in {T_ext2, T_ext3, T_ext4} -> Ext
      [] t = <<>> -> Unknown(EmptyOrUnformatted)
      [] OTHER -> Unknown(t)

is_supported(f) == f \in {Fat, Ext}

\* What blkid -o value -s TYPE can print on a zero exit.
BlkidTokens ==
    {T_vfat, T_fat, T_fat12, T_fat16, T_fat32, T_msdos, T_ext2, T_ext3, T_ext4,
     T_empty, T_ntfs, T_VFAT, T_Ext4, T_ext, T_ext5, T_fat3, T_swap}
BlkidOutputs ==
    {t \o <<"\n">> : t \in BlkidTokens}
        \cup {T_vfat, T_ext4, T_empty, <<" ">> \o T_ext4 \o <<" ", "\n">>,
              <<"\t">> \o T_ntfs \o <<"\r", "\n">>}

(***************************************************************************)
(* extract_image_partitions                                                *)
(***************************************************************************)
P1 == [number |-> 1, start |-> 2048, size |-> 131072]
P2 == [number |-> 2, start |-> 133120, size |-> 4096]
NoPartition == [number |-> -1, start |-> 0, size |-> 0]

\* Partition tables the external reader can yield (numbers are unique).
Tables ==
    {[partitions |-> <<P1>>, block_size |-> 512],
     [partitions |-> <<P1, P2>>, block_size |-> 512],
     [partitions |-> <<P2, P1>>, block_size |-> 4096]}

PartNums == {1, 2, 7}
DstDirs == {"/out/boot", "/out/root"}
Request == [part_num : PartNums, dst_dir : DstDirs]
RequestLists == UNION {[1..n -> Request] : n \in 0..MaxRequests}

Running == [status |-> "Running", msg |-> "", part_num |-> -1, fs_type |-> NoFs]
Ok == [status |-> "Ok", msg |-> "", part_num |-> -1, fs_type |-> NoFs]
Err(m, n, f) == [status |-> "Err", msg |-> m, part_num |-> n, fs_type |-> f]

Ev(s, i) == [step |-> s, req |-> i]

part_num == requests[idx].part_num
dst_dir == requests[idx].dst_dir

\* Variant: a lookup that falls back to the first partition.
find_or_first(ps, n) ==
    IF ps = <<>> THEN NoPartition
    ELSE IF \E k \in 1..Len(ps) : ps[k].number = n
         THEN ps[CHOOSE k \in 1..Len(ps) : ps[k].number = n]
         ELSE Head(ps)

\* table.partitions.iter().find(|p| p.number == *part_num)
RECURSIVE find(_, _)
find(ps, n) ==
    IF ps = <<>> THEN NoPartition
    ELSE IF Head(ps).number = n THEN Head(ps)
    ELSE find(Tail(ps), n)

\* Variant: an unlink that leaves the file in place.
remove_file_noop(fs, n) == fs

\* std::fs::remove_file(path).ok() on temp_dir, a writable directory the
\* call has exclusive access to: the file is gone afterwards, and the error
\* for a file that is not there is dropped.
remove_file(fs, n) == fs \ {n}

\* Variant: the log entry written before the extraction.
FollowingLogFirst(s) ==
    CASE s = "lookup" -> "raw_copy"
      [] s = "raw_copy" -> "probe"
      [] s = "probe" -> "check"
      [] s = "check" -> "log"
      [] s = "log" -> "extract_fs"
      [] s = "extract_fs" -> "cleanup"

\* The statement that follows statement s when s succeeds, in the order
\* the loop body is written.
Following(s) ==
    CASE s = "lookup" -> "raw_copy"
      [] s = "raw_copy" -> "probe"
      [] s = "probe" -> "check"
      [] s = "check" -> "extract_fs"
      [] s = "extract_fs" -> "log"
      [] s = "log" -> "cleanup"

\* `?` and bail!: the call returns the error.
Return(e) ==
    /\ result' = e
    /\ pc' = "done"

\* The head of the for loop: the next request, or Ok(table) after the last.
ForLoop(i) ==
    /\ idx' = i
    /\ partition' = NoPartition
    /\ ty' = <<>>
    /\ fs_type' = NoFs
    /\ IF i <= Len(requests)
       THEN pc' = "lookup" /\ result' = result
       ELSE Return(Ok)

ReadTable ==
    /\ pc = "read_table"
    /\ trace' = Append(trace, Ev("read_table", 0))
    /\ \/ ForLoop(1)
       \/ /\ Return(Err("unable to read partition table", -1, NoFs))
          /\ UNCHANGED <<idx, partition, ty, fs_type>>
    /\ UNCHANGED <<table, requests, files, created, log, dst_dirs, populated>>
    /\ UNCHANGED cvars

Lookup ==
    /\ pc = "lookup"
    /\ trace' = Append(trace, Ev("lookup", idx))
    /\ LET p == find(table.partitions, part_num) IN
         IF p # NoPartition
         THEN /\ partition' = p
              /\ pc' = Following("lookup")
              /\ result' = result
         ELSE /\ Return(Err("partition {} not found in image", part_num, NoFs))
              /\ partition' = partition
    /\ UNCHANGED <<table, requests, files, created, idx, ty, fs_type, log,
                   dst_dirs, populated>>
    /\ UNCHANGED cvars

\* The errors of extract_partition before and after File::create succeeded.
CopyErrorsBeforeCreate ==
    {"unable to open disk image", "unable to create partition file"}
CopyErrorsAfterCreate ==
    {"unable to seek in disk image", "unable to read from disk image",
     "unable to write to partition file"}

RawCopy ==
    /\ pc = "raw_copy"
    /\ trace' = Append(trace, Ev("raw_copy", idx))
    /\ \/ /\ files' = files \cup {part_num}
          /\ created' = created \cup {part_num}
          /\ pc' = Following("raw_copy")
          /\ result' = result
       \/ \E m \in CopyErrorsBeforeCreate :
            /\ Return(Err(m, -1, NoFs))
            /\ UNCHANGED <<files, created>>
       \/ \E m \in CopyErrorsAfterCreate :
            /\ files' = files \cup {part_num}
            /\ created' = created \cup {part_num}
            /\ Return(Err(m, -1, NoFs))
    /\ UNCHANGED <<table, requests, idx, partition, ty, fs_type, log,
                   dst_dirs, populated>>
    /\ UNCHANGED cvars

\* Variant: a probe failure that is recorded while the loop goes on.
ProbeFailContinue ==
    /\ pc = "probe"
    /\ trace' = Append(trace, Ev("probe", idx))
    /\ result' = Err("unable to probe filesystem type with blkid", -1, NoFs)
    /\ pc' = "cleanup"
    /\ UNCHANGED <<ty, fs_type>>
    /\ UNCHANGED <<table, requests, files, created, idx, partition, log,
                   dst_dirs, populated>>
    /\ UNCHANGED cvars

\* FsType::probe when blkid cannot be run, exits non-zero or prints non-UTF-8.
ProbeFail ==
    /\ pc = "probe"
    /\ trace' = Append(trace, Ev("probe", idx))
    /\ Return(Err("unable to probe filesystem type with blkid", -1, NoFs))
    /\ UNCHANGED <<ty, fs_type>>
    /\ UNCHANGED <<table, requests, files, created, idx, partition, log,
                   dst_dirs, populated>>
    /\ UNCHANGED cvars

\* FsType::probe when blkid exits zero.
Probe ==
    /\ pc = "probe"
    /\ trace' = Append(trace, Ev("probe", idx))
    /\ \E output \in BlkidOutputs :
         /\ ty' = trim(output)
         /\ fs_type' = from_blkid_type(trim(output))
    /\ pc' = Following("probe")
    /\ UNCHANGED <<table, requests, files, created, idx, partition, result,
                   log, dst_dirs, populated>>
    /\ UNCHANGED cvars

\* Variant: the unsupported branch bails without the unlink.
CheckSupportedNoCleanup ==
    /\ pc = "check"
    /\ pc' = IF is_supported(fs_type) THEN Following("check") ELSE "bail"
    /\ UNCHANGED <<table, requests, files, created, idx, partition, ty,
                   fs_type, result, log, trace, dst_dirs, populated>>
    /\ UNCHANGED cvars

\* if !fs_type.is_supported()
CheckSupported ==
    /\ pc = "check"
    /\ pc' = IF is_supported(fs_type) THEN Following("check")
             ELSE "bail_cleanup"
    /\ UNCHANGED <<table, requests, files, created, idx, partition, ty,
                   fs_type, result, log, trace, dst_dirs, populated>>
    /\ UNCHANGED cvars

\* "Clean up before bailing"
BailCleanup ==
    /\ pc = "bail_cleanup"
    /\ files' = remove_file(files, part_num)
    /\ pc' = "bail"
    /\ UNCHANGED <<table, requests, created, idx, partition, ty, fs_type,
                   result, log, trace, dst_dirs, populated>>
    /\ UNCHANGED cvars

Bail ==
    /\ pc = "bail"
    /\ Return(Err("partition {} has unsupported filesystem type: {:?}",
                  part_num, fs_type))
    /\ UNCHANGED <<table, requests, files, created, idx, partition, ty,
                   fs_type, log, trace, dst_dirs, populated>>
    /\ UNCHANGED cvars

\* extract_filesystem(&part_image_path, dst_dir, &fs_type)?
ExtractFs ==
    /\ pc = "extract_fs"
    /\ trace' = Append(trace, Ev("extract_fs", idx))
    /\ \/ /\ Return(Err("unable to create destination directory", -1, NoFs))
          /\ UNCHANGED <<dst_dirs, populated>>
       \/ /\ Return(Err("unable to canonicalize partition image path", -1, NoFs))
          /\ dst_dirs' = dst_dirs \cup {dst_dir}
          /\ UNCHANGED populated
       \/ /\ fs_type = Ext
          /\ dst_dirs' = dst_dirs \cup {dst_dir}
          /\ \/ /\ populated' = populated \cup {dst_dir}
                /\ pc' = Following("extract_fs")
                /\ result' = result
             \/ /\ Return(Err("unable to extract ext filesystem with debugfs",
                              -1, NoFs))
                /\ UNCHANGED populated
       \/ /\ fs_type = Fat
          /\ dst_dirs' = dst_dirs \cup {dst_dir}
          /\ \/ /\ populated' = populated \cup {dst_dir}
                /\ pc' = Following("extract_fs")
                /\ result' = result
             \/ /\ Return(Err("unable to extract FAT filesystem with mcopy",
                              -1, NoFs))
                /\ UNCHANGED populated
       \/ /\ fs_type \notin {Ext, Fat}
          /\ dst_dirs' = dst_dirs \cup {dst_dir}
          /\ Return(Err("cannot extract filesystem: unsupported type {:?}",
                        -1, fs_type))
          /\ UNCHANGED populated
    /\ UNCHANGED <<table, requests, files, created, idx, partition, ty,
                   fs_type, log>>
    /\ UNCHANGED cvars

\* info!("extracted partition {} ({:?}) to {:?}", part_num, fs_type, dst_dir)
LogInfo ==
    /\ pc = "log"
    /\ log' = Append(log, [part_num |-> part_num, fs_type |-> fs_type,
                           dst_dir |-> dst_dir])
    /\ trace' = Append(trace, Ev("log", idx))
    /\ pc' = Following("log")
    /\ UNCHANGED <<table, requests, files, created, idx, partition, ty,
                   fs_type, result, dst_dirs, populated>>
    /\ UNCHANGED cvars

\* The last statement of the loop body, then the next iteration.
Cleanup ==
    /\ pc = "cleanup"
    /\ files' = remove_file(files, part_num)
    /\ trace' = Append(trace, Ev("cleanup", idx))
    /\ ForLoop(idx + 1)
    /\ UNCHANGED <<table, requests, created, log, dst_dirs, populated>>
    /\ UNCHANGED cvars

(***************************************************************************)
(* 64-bit unsigned integers, as eight little-endian base-256 digits.       *)
(***************************************************************************)
\* A value below 2^31 as a u64.
ToU64(n) ==
    <<n % 256, (n \div 256) % 256, (n \div 65536) % 256, n \div 16777216,
      0, 0, 0, 0>>

\* A u64 fits the model's plain integers when it is below 2^31.
IsSmall(x) == x[4] < 128 /\ x[5] = 0 /\ x[6] = 0 /\ x[7] = 0 /\ x[8] = 0
FromU64(x) == x[1] + 256 * x[2] + 65536 * x[3] + 16777216 * x[4]

RECURSIVE LtFrom(_, _, _)
LtFrom(a, b, i) ==
    IF i = 0 THEN FALSE
    ELSE IF a[i] # b[i] THEN a[i] < b[i]
    ELSE LtFrom(a, b, i - 1)
LtU64(a, b) == LtFrom(a, b, 8)

RECURSIVE AddFrom(_, _, _, _)
AddFrom(a, b, i, carry) ==
    IF i > 8 THEN <<>>
    ELSE LET s == a[i] + b[i] + carry
         IN <<s % 256>> \o AddFrom(a, b, i + 1, s \div 256)
AddU64(a, b) == AddFrom(a, b, 1, 0)

RECURSIVE SubFrom(_, _, _, _)
SubFrom(a, b, i, borrow) ==
    IF i > 8 THEN <<>>
    ELSE LET d == a[i] - b[i] - borrow
         IN <<d % 256>> \o SubFrom(a, b, i + 1, IF d < 0 THEN 1 ELSE 0)
SubU64(a, b) == SubFrom(a, b, 1, 0)

RECURSIVE DigitSum(_, _, _, _)
DigitSum(a, b, k, i) ==
    IF i > k THEN 0 ELSE a[i] * b[k + 1 - i] + DigitSum(a, b, k, i + 1)

RECURSIVE MulFrom(_, _, _, _)
MulFrom(a, b, k, carry) ==
    IF k > 8 THEN <<>>
    ELSE LET s == DigitSum(a, b, k, 1) + carry
         IN <<s % 256>> \o MulFrom(a, b, k + 1, s \div 256)
MulU64(a, b) == MulFrom(a, b, 1, 0)

Zero64 == ToU64(0)

\* Variant: a counter as wide as the u64 it is set from.
as_usize_wide(x, bits) == x

\* `x as usize` for a u64 x: the low `bits` bits.
as_usize(x, bits) ==
    [i \in 1..8 |-> IF 8 * i <= bits THEN x[i] ELSE 0]

(***************************************************************************)
(* extract_partition                                                       *)
(***************************************************************************)
CHUNK_SIZE == 4 * 1024 * 1024

UsizeBits == {32, 64}
Starts == {0, 1, 2048}
Sizes == {0, 1, 3, 8193, 8388608, 8388609}
BlockSizes == {512, 4096}
ImgLens == {0, 1000, 1536, 1050112, 6291456}
StaleDst == <<<<0, 7>>>>

start_bytes == MulU64(ToU64(c_args.start), ToU64(c_args.block_size))
size_bytes == MulU64(ToU64(c_args.size), ToU64(c_args.block_size))

Min(a, b) == IF a < b THEN a ELSE b

\* remaining.min(CHUNK_SIZE)
to_read ==
    IF LtU64(remaining, ToU64(CHUNK_SIZE)) THEN FromU64(remaining)
    ELSE CHUNK_SIZE

\* Bytes between the file position of src and the end of the image.
Available ==
    IF LtU64(src_pos, ToU64(img_len)) THEN img_len - FromU64(src_pos) ELSE 0

\* What one read of a buffer of n bytes can return: 0 only at end of file,
\* else any count from 1 up to what is there; short counts are drawn from a
\* few sizes, and at most MaxShortReads times in one call.
ReadCounts(n) ==
    LET full == Min(n, Available)
    IN  {full} \cup
        (IF shorts < MaxShortReads
         THEN {1, full \div 2, full - 1} \cap (1..(full - 1))
         ELSE {})

CopyDone(r) ==
    /\ c_result' = r
    /\ cpc' = "done"

\* File::open, File::create, seek, and the set-up of the loop.
CopySetup ==
    /\ cpc = "open"
    /\ \/ /\ \E m \in {"unable to open disk image",
                       "unable to create partition file"} : CopyDone(m)
          /\ UNCHANGED <<dst, src_pos, remaining>>
       \/ /\ CopyDone("unable to seek in disk image")
          /\ dst' = <<>>
          /\ UNCHANGED <<src_pos, remaining>>
       \/ /\ dst' = <<>>
          /\ src_pos' = start_bytes
          /\ remaining' = as_usize(size_bytes, usize_bits)
          /\ cpc' = "loop"
          /\ c_result' = c_result
    /\ UNCHANGED <<usize_bits, c_args, img_len, shorts>>
    /\ UNCHANGED ovars

\* One iteration of `while remaining > 0` that reads and writes bytes.
CopyChunk ==
    /\ cpc = "loop"
    /\ remaining # Zero64
    /\ \E bytes_read \in ReadCounts(to_read) :
         /\ bytes_read > 0
         /\ shorts' = IF bytes_read < Min(to_read, Available)
                      THEN shorts + 1 ELSE shorts
         /\ src_pos' = AddU64(src_pos, ToU64(bytes_read))
         /\ \/ /\ dst' = Append(dst, <<FromU64(src_pos),
                                       FromU64(src_pos) + bytes_read>>)
               /\ remaining' = SubU64(remaining, ToU64(bytes_read))
               /\ UNCHANGED <<cpc, c_result>>
            \/ /\ CopyDone("unable to write to partition file")
               /\ \E written \in {0, bytes_read \div 2} :
                    dst' = IF written = 0 THEN dst
                           ELSE Append(dst, <<FromU64(src_pos),
                                              FromU64(src_pos) + written>>)
               /\ UNCHANGED remaining
    /\ UNCHANGED <<usize_bits, c_args, img_len>>
    /\ UNCHANGED ovars

\* A read that fails.
CopyReadError ==
    /\ cpc = "loop"
    /\ remaining # Zero64
    /\ CopyDone("unable to read from disk image")
    /\ UNCHANGED <<usize_bits, c_args, img_len, remaining, src_pos, dst, shorts>>
    /\ UNCHANGED ovars

\* if bytes_read == 0 { break; }
CopyEof ==
    /\ cpc = "loop"
    /\ remaining # Zero64
    /\ 0 \in ReadCounts(to_read)
    /\ CopyDone("Ok")
    /\ UNCHANGED <<usize_bits, c_args, img_len, remaining, src_pos, dst, shorts>>
    /\ UNCHANGED ovars

\* The loop condition fails: Ok(()).
CopyExit ==
    /\ cpc = "loop"
    /\ remaining = Zero64
    /\ CopyDone("Ok")
    /\ UNCHANGED <<usize_bits, c_args, img_len, remaining, src_pos, dst, shorts>>
    /\ UNCHANGED ovars

(***************************************************************************)
(* Specifications                                                          *)
(***************************************************************************)
CopyIdle ==
    /\ usize_bits = 64
    /\ c_args = [start |-> 0, size |-> 0, block_size |-> 512]
    /\ img_len = 0
    /\ cpc = "idle"
    /\ remaining = Zero64
    /\ src_pos = Zero64
    /\ dst = <<>>
    /\ shorts = 0
    /\ c_result = "none"

OrchestratorIdle ==
    /\ table = [partitions |-> <<>>, block_size |-> 512]
    /\ requests = <<>>
    /\ files = {}
    /\ created = {}
    /\ idx = 0
    /\ pc = "idle"
    /\ partition = NoPartition
    /\ ty = <<>>
    /\ fs_type = NoFs
    /\ result = Running
    /\ log = <<>>
    /\ trace = <<>>
    /\ dst_dirs = {}
    /\ populated = {}

Init ==
    /\ table \in Tables
    /\ requests \in RequestLists
    /\ files \in SUBSET {1, 2}
    /\ created = {}
    /\ idx = 0
    /\ pc = "read_table"
    /\ partition = NoPartition
    /\ ty = <<>>
    /\ fs_type = NoFs
    /\ result = Running
    /\ log = <<>>
    /\ trace = <<>>
    /\ dst_dirs \in {{}, {"/out/boot"}}
    /\ populated = {}
    /\ CopyIdle

Next ==
    \/ ReadTable
    \/ Lookup
    \/ RawCopy
    \/ Probe
    \/ ProbeFail
    \/ CheckSupported
    \/ BailCleanup
    \/ Bail
    \/ ExtractFs
    \/ LogInfo
    \/ Cleanup

Spec == Init /\ [][Next]_vars

InitCopy ==
    /\ usize_bits \in UsizeBits
    /\ c_args \in [start : Starts, size : Sizes, block_size : BlockSizes]
    /\ img_len \in ImgLens
    /\ cpc = "open"
    /\ remaining = Zero64
    /\ src_pos = Zero64
    /\ dst \in {<<>>, StaleDst}
    /\ shorts = 0
    /\ c_result = "none"
    /\ OrchestratorIdle

NextCopy ==
    \/ CopySetup
    \/ CopyChunk
    \/ CopyReadError
    \/ CopyEof
    \/ CopyExit

SpecCopy == InitCopy /\ [][NextCopy]_vars

(***************************************************************************)
(* Properties of extract_image_partitions (checked under Spec)             *)
(***************************************************************************)
UnsupportedMsg == "partition {} has unsupported filesystem type: {:?}"
NotFoundMsg == "partition {} not found in image"
InLoopBody == pc \in {"raw_copy", "probe", "check", "bail_cleanup", "bail",
                      "extract_fs", "log", "cleanup"}
Positions == 1..Len(trace)
Started(s, i) == \E k \in Positions : trace[k] = Ev(s, i)

\* C1: when the call has returned Ok, no partition-<N>.img that the call
\* created exists in temp_dir, whatever the table and the request list.
C1_NoTempLeakOnSuccess ==
    result.status = "Ok" => created \cap files = {}

C1_Witness ==
    /\ result.status = "Ok"
    /\ Len(requests) = 2
    /\ requests[1].part_num = requests[2].part_num
    /\ requests[1].part_num \in created

\* C2: when the probe yields an Unknown type, the temp file of the request
\* is gone before the error is raised, the request never reaches the
\* extractor, and the error carries the partition number and the type.
C2_UnsupportedCleansUpThenFails ==
    /\ pc = "bail" => part_num \notin files
    /\ (InLoopBody /\ fs_type[1] = "Unknown") =>
            pc \in {"check", "bail_cleanup", "bail"}
    /\ result.msg = UnsupportedMsg =>
         /\ result.status = "Err"
         /\ result.part_num = part_num
         /\ result.fs_type = fs_type
         /\ fs_type[1] = "Unknown"
         /\ part_num \notin files

C2_Witness ==
    /\ result.msg = UnsupportedMsg
    /\ result.fs_type = Unknown(T_ntfs)
    /\ part_num \in created

\* C3: a partition-<N>.img that the call created exists only while the call
\* is processing the request for N; none exists once the call has returned.
C3_TempOnlyDuringOwnRequest ==
    \A n \in created \cap files : InLoopBody /\ part_num = n

\* C4: when the call fails at request k, the temp file of every request
\* before k does not exist.
C4_EarlierTempsNotRetained ==
    result.status = "Err" =>
        \A j \in 1..(idx - 1) : requests[j].part_num \notin files

\* C5: a failure at request k ends the call at once: the call has returned,
\* nothing more can happen, no step was started twice, no step of a later
\* request was started and no temp file of a later request was created.
C5_FailureStopsTheCall ==
    result.status = "Err" =>
        /\ pc = "done"
        /\ ~ENABLED Next
        /\ \A i, j \in Positions : i # j => trace[i] # trace[j]
        /\ \A i \in Positions : trace[i].req <= idx
        /\ trace[Len(trace)].req = idx
        /\ created \subseteq {requests[j].part_num : j \in 1..idx}

C5_Witness ==
    /\ result.status = "Err"
    /\ idx = 1
    /\ Len(requests) = 2
    /\ Started("raw_copy", 1)

\* C6: the table is read first; requests are processed in the order given,
\* each as raw copy, probe, extraction, cleanup; the log entry of a request
\* comes after its extraction and before any step of the next request, so
\* the log entries are in request order.
StepRank(s) ==
    CASE s = "lookup" -> 0
      [] s = "raw_copy" -> 1
      [] s = "probe" -> 2
      [] s = "extract_fs" -> 3
      [] s = "cleanup" -> 4
      [] OTHER -> -1

C6_StrictOrdering ==
    /\ \A i \in Positions : (trace[i].step = "read_table") <=> (i = 1)
    /\ \A i, j \in Positions : i < j => trace[i].req <= trace[j].req
    /\ \A i, j \in Positions :
         (/\ i < j
          /\ trace[i].req = trace[j].req
          /\ "log" \notin {trace[i].step, trace[j].step})
            => StepRank(trace[i].step) < StepRank(trace[j].step)
    /\ \A i \in Positions :
         (trace[i].step = "cleanup" /\ trace[i].req >= 1) =>
            /\ Started("raw_copy", trace[i].req)
            /\ Started("probe", trace[i].req)
            /\ Started("extract_fs", trace[i].req)
            /\ Started("log", trace[i].req)
    /\ \A j \in Positions :
         trace[j].step = "log" =>
            /\ \E i \in 1..(j - 1) : trace[i] = Ev("extract_fs", trace[j].req)
            /\ \A i \in (j + 1)..Len(trace) :
                 trace[i].req > trace[j].req \/ trace[i].step = "cleanup"
    /\ Len(log) <= Len(requests)
    /\ \A k \in 1..Len(log) :
         /\ log[k].part_num = requests[k].part_num
         /\ log[k].dst_dir = requests[k].dst_dir

C6_Witness ==
    /\ result.status = "Ok"
    /\ Len(log) = 2
    /\ log[1].part_num = 2
    /\ log[2].part_num = 1
    /\ populated = {"/out/boot", "/out/root"}

\* C8: a request for a number that is not in the table fails with the
\* not-found message for that number, before the temp file is created and
\* before the raw copy; the requests before it have been fully processed.
C8_MissingPartitionFailsEarly ==
    /\ InLoopBody =>
         \E k \in 1..Len(table.partitions) :
            table.partitions[k].number = part_num
    /\ result.msg = NotFoundMsg =>
         /\ result.status = "Err"
         /\ result.part_num = part_num
         /\ \A k \in 1..Len(table.partitions) :
              table.partitions[k].number # part_num
         /\ ~Started("raw_copy", idx)
         /\ part_num \notin created
         /\ \A j \in 1..(idx - 1) : Started("cleanup", j)

C8_Witness ==
    /\ result.msg = NotFoundMsg
    /\ result.part_num = 7
    /\ idx = 2
    /\ Len(log) = 1

\* C9: the token mapping is exact and case-sensitive, is_supported holds
\* for exactly Fat and Ext, and the call takes the unsupported branch for
\* every token outside the nine listed ones.
C9_TokenMapping ==
    LET fat == {T_vfat, T_fat, T_fat12, T_fat16, T_fat32, T_msdos}
        ext == {T_ext2, T_ext3, T_ext4}
    IN  fs_type # NoFs =>
          /\ ty \in fat => fs_type = Fat
          /\ ty \in ext => fs_type = Ext
          /\ ty = <<>> => fs_type = <<"Unknown", EmptyOrUnformatted>>
          /\ ty \notin (fat \cup ext \cup {<<>>}) => fs_type = <<"Unknown", ty>>
          /\ is_supported(fs_type) <=> ty \in (fat \cup ext)
          /\ ty \notin (fat \cup ext) =>
               /\ pc \in {"check", "bail_cleanup", "bail", "done"}
               /\ pc = "done" => result.msg = UnsupportedMsg
          /\ ty \in (fat \cup ext) =>
               /\ pc \notin {"bail_cleanup", "bail"}
               /\ result.msg # UnsupportedMsg

C9_Witness ==
    /\ result.msg = UnsupportedMsg
    /\ ty = T_VFAT
    /\ fs_type = <<"Unknown", T_VFAT>>

(***************************************************************************)
(* Properties of extract_partition (checked under SpecCopy)                *)
(***************************************************************************)
RECURSIVE RunsLen(_)
RunsLen(runs) ==
    IF runs = <<>> THEN 0
    ELSE (Head(runs)[2] - Head(runs)[1]) + RunsLen(Tail(runs))

\* The runs, one after the other, are exactly the image bytes lo..hi-1.
RECURSIVE RunsAre(_, _, _)
RunsAre(runs, lo, hi) ==
    IF runs = <<>> THEN lo = hi
    ELSE /\ Head(runs)[1] = lo
         /\ Head(runs)[2] > lo
         /\ Head(runs)[2] <= hi
         /\ RunsAre(Tail(runs), Head(runs)[2], hi)

end_bytes == AddU64(start_bytes, size_bytes)

\* C7: a copy that meets no I/O error returns Ok and leaves in dst exactly
\* the image bytes from start*block_size up to (start+size)*block_size, cut
\* at the end of the image, however the reads are split.
C7_ByteExactCopy ==
    (cpc = "done" /\ c_result = "Ok") =>
        IF LtU64(start_bytes, ToU64(img_len))
        THEN RunsAre(dst, FromU64(start_bytes),
                     IF LtU64(end_bytes, ToU64(img_len))
                     THEN FromU64(end_bytes) ELSE img_len)
        ELSE dst = <<>>

\* C10: on every build target the loop counter starts at size*block_size:
\* while the loop runs, the bytes still to copy and the bytes copied add up
\* to size*block_size, and a read never exceeds what remains.
C10_WideArithmetic ==
    cpc = "loop" =>
        /\ AddU64(remaining, ToU64(RunsLen(dst))) = size_bytes
        /\ \A n \in ReadCounts(to_read) : ~LtU64(remaining, ToU64(n))
====
